---- MODULE Spec2Model ----
(***************************************************************************)
(* A model of glmpca-py (src/glmpca/glmpca.py): the GlmPCA object, one     *)
(* call of GlmPCA.fit cut at its control points (validation, set-up, the   *)
(* deviance check of every iteration, every single-column Fisher-scoring   *)
(* update, the negative-binomial refresh, postprocessing with ortho), and  *)
(* the GlmpcaFamily wrapper.                                               *)
(*                                                                         *)
(* Floating-point matrices are not computed.  What the model keeps of a    *)
(* matrix is its shape, where each column came from, and how many times    *)
(* each column was updated; a deviance, a dispersion estimate and a column *)
(* norm are values drawn from small sets, because the code's control flow  *)
(* depends on them only through the tests modelled here.                   *)
(***************************************************************************)
EXTENDS Integers, Sequences, FiniteSets, TLC

VARIABLES
    self,       \* the GlmPCA object: its attributes (lines 292-301, 342-345, 441)
    init_arg,   \* the init argument the caller gave the constructor (line 220)
    Y, X, Z, sz,            \* the arguments of fit (line 348)
    pc,         \* where the fit call is
    err,        \* the exception that left fit, or None
    Ko, Kf,     \* lines 369, 376
    lid, uid, vid,          \* lines 382-384
    U, V,       \* lines 391-401; column index -> [src, upd]
    dev,        \* the maxiter-long buffer of line 404
    t,          \* the loop variable of line 405
    k,          \* position in the column loop under way (lines 419, 425)
    sweep,      \* the column updates of the sweep under way, in order
    stop,       \* how the loop of line 405 was left
    n_theta,    \* how many times est_nb_theta was called (line 432)
    est_arg,    \* the arguments of the last call of est_nb_theta, or None
    gf_built    \* how many wrappers fit constructed (line 434)

vars == <<self, init_arg, Y, X, Z, sz, pc, err, Ko, Kf, lid, uid, vid,
          U, V, dev, t, k, sweep, stop, n_theta, est_arg, gf_built>>

\* Python's None.  Every value that may be None is a record, a function or a
\* non-empty sequence when it is not (a number n is kept as <<n>>).
None == <<>>
\* An attribute of the object that was never assigned; an assigned one holds
\* <<value>>.
Unset == <<>>
Unbound == 0 - 1        \* a local name that was never bound
NoErr == [type |-> "none", at |-> 0]
Raise(type, line) == [type |-> type, at |-> line]

-----------------------------------------------------------------------------
(* Bounds of the model *)
MaxJ == 2               \* rows (features) of Y
MaxN == 2               \* columns (observations) of Y
MaxL == 3               \* n_components
MaxIter == 7            \* maxiter
MaxNorm == 2            \* the L2 norm of a rotated factor column, as an integer

(* Program constants *)
NbThetaDefault == 100   \* the default nb_theta
MinSweeps == 4          \* the t>4 of the convergence test

\* np.nan and an infinity, as the values a deviance takes beside DevVals
NaN == 0 - 1
Inf == 0 - 2

YVals == {-1, 0, 1, 2}
DevVals == {1, 2}               \* finite deviances
NonFinite == {NaN, Inf}         \* what np.isfinite rejects
ThetaVals == {1, 2}             \* re-estimated dispersions
SzVals == {1, 2}                \* entries of a supplied size-factor vector
Families == {"poi", "nb", "mult", "bern"}
EpsDefault == <<1, 10000>>      \* eps = 1e-4 as a fraction
EpsVals == {EpsDefault, <<1, 2>>}

Min(a, b) == IF a < b THEN a ELSE b
Abs(a) == IF a < 0 THEN -a ELSE a
Range(n) == 0 .. (n - 1)        \* Python's range(n)

RECURSIVE SumTo(_, _)
SumTo(f, n) == IF n = 0 THEN 0 ELSE f[n] + SumTo(f, n - 1)

-----------------------------------------------------------------------------
(* numpy helpers on Y, a J-long sequence of N-long rows (lines 14-36) *)
nrowY(y) == Len(y)
ncolY(y) == Len(y[1])
rowSums(y) == [j \in 1 .. nrowY(y) |-> SumTo(y[j], ncolY(y))]
colSums(y) == [n \in 1 .. ncolY(y) |->
                 SumTo([j \in 1 .. nrowY(y) |-> y[j][n]], nrowY(y))]
\* a mean is kept as the fraction <<sum, count>>
colMeans(y) == [n \in 1 .. ncolY(y) |-> <<colSums(y)[n], nrowY(y)>>]
rowMeans(y) == [j \in 1 .. nrowY(y) |-> <<rowSums(y)[j], ncolY(y)>>]
minY(y) == CHOOSE m \in YVals :
             /\ \E j \in 1 .. nrowY(y), n \in 1 .. ncolY(y) : y[j][n] = m
             /\ \A j \in 1 .. nrowY(y), n \in 1 .. ncolY(y) : y[j][n] >= m
maxRow(r) == CHOOSE m \in YVals :
               /\ \E n \in 1 .. Len(r) : r[n] = m
               /\ \A n \in 1 .. Len(r) : r[n] <= m
maxY(y) == CHOOSE m \in YVals :
             /\ \E j \in 1 .. nrowY(y) : maxRow(y[j]) = m
             /\ \A j \in 1 .. nrowY(y) : maxRow(y[j]) <= m

\* a vector of fractions; a vector of numbers v is the fractions <<v[n], 1>>
AsFractions(v) == [n \in 1 .. Len(v) |-> <<v[n], 1>>]
FracEq(a, b) == a[1] * b[2] = b[1] * a[2]
VecEq(a, b) == /\ a # None /\ b # None
               /\ Len(a) = Len(b)
               /\ \A n \in 1 .. Len(a) : FracEq(a[n], b[n])

\* remove_intercept (lines 48-57): the columns that are not constant stay
RECURSIVE CountFalse(_)
CountFalse(s) == IF s = <<>> THEN 0
                 ELSE (IF Head(s) THEN 0 ELSE 1) + CountFalse(Tail(s))
remove_intercept(x) == [rows |-> x.rows, cols |-> CountFalse(x.const)]

-----------------------------------------------------------------------------
(* GlmpcaFamily (lines 64-131) *)

\* the link of the statsmodels family, applied to a vector: kept symbolic
link(fam, v) == [fn |-> IF fam \in {"poi", "nb"} THEN "log" ELSE "logit",
                 of |-> v]
Zero == [fn |-> "zero", of |-> <<>>]     \* the offsets 0 of line 123

\* GlmpcaFamily.__init__ (lines 67-100), for a family it accepts
GlmpcaFamily(glm_family, theta) ==
    [glm_family |-> glm_family,
     \* line 79: the statsmodels family is built with alpha = 1/nb_theta
     alpha_inv |-> IF glm_family = "nb" THEN theta ELSE None,
     \* line 71 stores the argument, line 98 overwrites it
     nb_theta |-> None,
     sz |-> None, offsets |-> Unset, mult_n |-> None, intercepts |-> None]

\* line 117
InitSz(y, s) == IF s # None THEN colMeans(y) ELSE s

\* GlmpcaFamily.initialize (lines 103-131) returning the wrapper after it.
\* With sz = None and a Poisson or negative-binomial family line 117 stores
\* None and line 118 hands None to the link, which raises TypeError: the
\* wrapper is then left as it was at that line.
\* The test of line 130 is never true here: the statsmodels links clip their
\* argument away from 0 and 1 (tests, lines 72-74), so no intercept is
\* infinite, and fit has refused an all-zero row at line 355 already.
InitializeRaises(g, y, s) ==
    g.glm_family \in {"poi", "nb"} /\ InitSz(y, s) = None
initialize(g, y, s) ==
    LET mn == IF g.glm_family = "mult" THEN colSums(y) ELSE None
    IN  IF g.glm_family \in {"poi", "nb"}
        THEN IF InitSz(y, s) = None
             THEN [g EXCEPT !.mult_n = mn, !.sz = None]
             ELSE [g EXCEPT !.mult_n = mn,
                            !.sz = InitSz(y, s),
                            !.offsets = link(g.glm_family, InitSz(y, s)),
                            !.intercepts = link(g.glm_family,
                                  <<rowSums(y), InitSz(y, s)>>)]
        ELSE [g EXCEPT !.mult_n = mn,
                       !.offsets = Zero,
                       !.intercepts =
                           IF g.glm_family = "mult"
                           THEN link("mult", <<rowSums(y), mn>>)
                           ELSE link("bern", rowMeans(y))]

-----------------------------------------------------------------------------
(* GlmPCA.__init__ (lines 219-301) *)
GlmPCA(n_components, family, maxiter, eps, init, nb_theta) ==
    [n_components |-> n_components,
     family |-> family,
     maxiter |-> maxiter,
     eps |-> eps,
     \* line 298: the init argument is not read
     init |-> [factors |-> None, loadings |-> None],
     nb_theta |-> nb_theta,
     gf |-> GlmpcaFamily(family, nb_theta),
     sz |-> None,
     factors |-> Unset, loadings |-> Unset,
     coefX |-> Unset, coefZ |-> Unset, dev |-> Unset]


-----------------------------------------------------------------------------
(* The inputs of one run: a constructed object and the arguments of fit *)

Ones(J, N) == [j \in 1 .. J |-> [n \in 1 .. N |-> 1]]
\* the J x N matrices that hold b everywhere but for one entry
Ys(J, N) == {[j \in 1 .. J |-> [n \in 1 .. N |->
                 IF j = p[1] /\ n = p[2] THEN v ELSE b]] :
             b \in {0, 1}, p \in (1 .. J) \X (1 .. N), v \in YVals}
\* X as its row count and, column by column, whether the column is constant
Xs == {None} \cup {<<[rows |-> r, const |-> c]>> :
                   r \in 1 .. MaxN, c \in {<<FALSE>>, <<TRUE, FALSE>>}}
Zs == {None} \cup {<<[rows |-> r, cols |-> 1]>> : r \in 1 .. MaxJ}
Szs == {None} \cup UNION {[1 .. n -> SzVals] : n \in 1 .. MaxN}
\* a warm start as the number of columns of the supplied array
Warm == {None} \cup {<<c>> : c \in 1 .. MaxL}

Start(obj, ini, y, x, z, s) ==
    /\ self = obj /\ init_arg = ini
    /\ Y = y /\ X = x /\ Z = z /\ sz = s
    /\ pc = "call" /\ err = NoErr
    /\ Ko = Unbound /\ Kf = Unbound
    /\ lid = <<>> /\ uid = <<>> /\ vid = <<>>
    /\ U = None /\ V = None /\ dev = None
    /\ t = Unbound /\ k = 0 /\ sweep = <<>> /\ stop = "no" /\ n_theta = 0
    /\ est_arg = None /\ gf_built = 0

NoWarm == [factors |-> None, loadings |-> None]

\* every kind of argument, one component, one iteration
InitInputs ==
    \E J \in 1 .. MaxJ, N \in 1 .. MaxN, fam \in Families :
      \E y \in Ys(J, N), x \in Xs, z \in Zs, s \in Szs :
        Start(GlmPCA(1, fam, 1, EpsDefault, NoWarm, <<NbThetaDefault>>),
              NoWarm, y, x, z, s)

\* every iteration count and tolerance, on one valid data set
InitLoop ==
    \E fam \in Families, mi \in 0 .. MaxIter, e \in EpsVals :
      Start(GlmPCA(1, fam, mi, e, NoWarm, <<NbThetaDefault>>),
            NoWarm, Ones(MaxJ, MaxN), None, None,
            IF fam \in {"poi", "nb"} THEN [n \in 1 .. MaxN |-> 1] ELSE None)

\* every shape and number of components
InitShapes ==
    \E J \in 1 .. MaxJ, N \in 1 .. MaxN, L \in 1 .. MaxL, fam \in {"poi", "bern"},
       mi \in 1 .. 2 :
      Start(GlmPCA(L, fam, mi, EpsDefault, NoWarm, <<NbThetaDefault>>),
            NoWarm, Ones(J, N), None, None, [n \in 1 .. N |-> 1])

\* every warm start
InitWarm ==
    \E L \in 1 .. MaxL, f \in Warm, l \in Warm :
      LET ini == [factors |-> f, loadings |-> l]
      IN  Start(GlmPCA(L, "mult", 1, EpsDefault, ini, <<NbThetaDefault>>),
                ini, Ones(MaxJ, MaxN), None, None, None)

Init == InitInputs \/ InitLoop \/ InitShapes \/ InitWarm

-----------------------------------------------------------------------------
(* GlmPCA.fit, lines 349-380: validation and the covariates *)

N_ == ncolY(Y)
J_ == nrowY(Y)
L_ == self.n_components

\* FitError without the check of line 379
FitError_skip(y, x, z, s, family) ==
    IF minY(y) < 0 THEN 353
    ELSE IF \E j \in 1 .. nrowY(y) : maxRow(y[j]) = 0 THEN 356
    ELSE IF family = "bern" /\ maxY(y) > 1 THEN 359
    ELSE IF x # None /\ x[1].rows # ncolY(y) THEN 364
    ELSE IF z # None /\ z[1].rows # nrowY(y) THEN 373
    ELSE 0

\* the line of the first check that fails, 0 when none does
FitError(y, x, z, s, family) ==
    IF minY(y) < 0 THEN 353
    ELSE IF \E j \in 1 .. nrowY(y) : maxRow(y[j]) = 0 THEN 356
    ELSE IF family = "bern" /\ maxY(y) > 1 THEN 359
    ELSE IF x # None /\ x[1].rows # ncolY(y) THEN 364
    ELSE IF z # None /\ z[1].rows # nrowY(y) THEN 373
    ELSE IF s # None /\ Len(s) # ncolY(y) THEN 380
    ELSE 0

Validate ==
    /\ pc = "call"
    /\ LET e == FitError(Y, X, Z, sz, self.family)
       IN  IF e # 0
           THEN /\ pc' = "raised"
                /\ err' = Raise("GlmpcaError", e)
                \* the checks of X precede line 369, those of Z line 376
                /\ Ko' = IF e > 369 THEN
                            (IF X = None THEN 0 ELSE remove_intercept(X[1]).cols) + 1
                         ELSE Ko
                /\ Kf' = IF e > 376 THEN (IF Z = None THEN 0 ELSE Z[1].cols)
                         ELSE Kf
           ELSE /\ pc' = "init"
                /\ err' = err
                \* lines 362-369
                /\ Ko' = (IF X = None THEN 0 ELSE remove_intercept(X[1]).cols) + 1
                \* lines 371-376
                /\ Kf' = IF Z = None THEN 0 ELSE Z[1].cols
    /\ UNCHANGED <<self, init_arg, Y, X, Z, sz, lid, uid, vid, U, V, dev, t, k,
                   sweep, stop, n_theta,
                   est_arg, gf_built>>

-----------------------------------------------------------------------------
(* GlmPCA.fit, lines 382-405: index sets, the family's constants, U and V *)

\* lines 382-384, as the lists the loops of lines 419 and 425 run over
Lid(ko, kf, L) == [i \in 1 .. L |-> (ko + kf) + (i - 1)]
\* line 383 with uid starting at column 0
Uid_all(ko, kf, L) == [i \in 1 .. (ko + kf + L) |-> i - 1]
Uid(ko, kf, L) == [i \in 1 .. (kf + L) |-> ko + (i - 1)]
Vid(ko, kf, L) == [i \in 1 .. ko |-> i - 1] \o Lid(ko, kf, L)
Elems(s) == {s[i] : i \in 1 .. Len(s)}

\* lines 392-394 and 399-401: the latent columns a warm start overwrites
WarmCols(given, ko, kf, L) ==
    IF given = None THEN {}
    ELSE {(ko + kf) + i : i \in Range(Min(L, given[1]))}

\* lines 391-394
InitU(ko, kf, L, given) ==
    [c \in Range(ko + kf + L) |->
        [src |-> IF c \in WarmCols(given, ko, kf, L) THEN "init"
                 ELSE IF c = 0 THEN "ones"
                 ELSE IF c < ko THEN "X"
                 ELSE "randn",
         upd |-> 0]]

\* lines 396-401
InitV(ko, kf, L, given) ==
    [c \in Range(ko + kf + L) |->
        [src |-> IF c \in WarmCols(given, ko, kf, L) THEN "init"
                 ELSE IF c = 0 THEN "intercepts"
                 ELSE IF c < ko THEN "randn"
                 ELSE IF c < ko + kf THEN "Z"
                 ELSE "randn",
         upd |-> 0]]

Initialize ==
    /\ pc = "init"
    /\ lid' = Lid(Ko, Kf, L_)
    /\ uid' = Uid(Ko, Kf, L_)
    /\ vid' = Vid(Ko, Kf, L_)
    \* line 388
    /\ self' = [self EXCEPT !.gf = initialize(self.gf, Y, sz)]
    /\ IF InitializeRaises(self.gf, Y, sz)
       THEN /\ pc' = "raised"
            /\ err' = Raise("TypeError", 118)
            /\ UNCHANGED <<U, V, dev, t, stop>>
       ELSE /\ U' = InitU(Ko, Kf, L_, self.init.factors)
            /\ V' = InitV(Ko, Kf, L_, self.init.loadings)
            \* line 404
            /\ dev' = [i \in 1 .. self.maxiter |-> NaN]
            \* line 405: the first pass of the loop, if there is one
            /\ IF self.maxiter > 0
               THEN pc' = "dev" /\ t' = 0 /\ stop' = stop
               ELSE pc' = "post" /\ t' = t /\ stop' = "exhausted"
            /\ err' = err
    /\ UNCHANGED <<init_arg, Y, X, Z, sz, Ko, Kf, k, sweep, n_theta,
                   est_arg, gf_built>>

-----------------------------------------------------------------------------
(* GlmPCA.fit, lines 405-435: the optimization loop *)

\* np.isnan in the place of np.isfinite
IsFinite_nan(d) == d # NaN
IsFinite(d) == d \notin NonFinite

\* GlmpcaFamily.dev_func (lines 162-167): the deviances it can return
dev_func == DevVals \cup NonFinite

\* line 410, with eps the fraction e[1]/e[2]:
\* |d1 - d0| / (0.1 + |d0|) < eps, both sides multiplied by 10 * e[2] * (0.1 + |d0|)
RelChangeBelow(d1, d0, e) ==
    Abs(d1 - d0) * 10 * e[2] < e[1] * (1 + 10 * Abs(d0))
\* the test of line 410 with t>3
Converged_early(tt, d, e) ==
    tt > MinSweeps - 1 /\ RelChangeBelow(d[tt + 1], d[tt], e)
Converged(tt, d, e) ==
    tt > MinSweeps /\ RelChangeBelow(d[tt + 1], d[tt], e)

\* lines 406-411 (dev[t] of the code is the entry t + 1 of the sequence)
DevEval ==
    /\ pc = "dev"
    /\ \E d \in dev_func :
         /\ dev' = [dev EXCEPT ![t + 1] = d]
         /\ IF ~IsFinite(d)
            THEN /\ pc' = "raised"
                 /\ err' = Raise("GlmpcaError", 408)
                 /\ UNCHANGED <<stop, k, sweep>>
            ELSE IF Converged(t, dev', self.eps)
            THEN /\ pc' = "post"
                 /\ stop' = "break"
                 /\ UNCHANGED <<err, k, sweep>>
            ELSE /\ pc' = "sweepV"
                 /\ k' = 0
                 /\ sweep' = <<>>
                 /\ UNCHANGED <<err, stop>>
    /\ UNCHANGED <<self, init_arg, Y, X, Z, sz, Ko, Kf, lid, uid, vid, U, V, t,
                   n_theta,
                   est_arg, gf_built>>

\* GlmpcaFamily.infograd (lines 135-159) at rfunc(U, V): what the gradient and
\* the information are computed from, as the update count of every column
infograd(Uc, Vc) == [u |-> [c \in DOMAIN Uc |-> Uc[c].upd],
                     v |-> [c \in DOMAIN Vc |-> Vc[c].upd]]

\* the record of one column update: the matrix, the column, whether the
\* penalty entered the step, and the infograd the step was computed from
Update(mat, c, ig) == [mat |-> mat, col |-> c, pen |-> c \in Elems(lid), saw |-> ig]

\* UpdateV with infograd computed once, before the loop over vid
UpdateV_stale ==
    /\ pc = "sweepV"
    /\ LET c == vid[k + 1]
           ig == IF sweep = <<>> THEN infograd(U, V) ELSE sweep[1].saw
       IN  /\ V' = [V EXCEPT ![c].upd = @ + 1]
           /\ sweep' = Append(sweep, Update("V", c, ig))
    /\ IF k + 1 < Len(vid)
       THEN pc' = pc /\ k' = k + 1
       ELSE pc' = "sweepU" /\ k' = 0
    /\ UNCHANGED <<self, init_arg, Y, X, Z, sz, err, Ko, Kf, lid, uid, vid, U,
                   dev, t, stop, n_theta,
                   est_arg, gf_built>>

\* lines 419-423, one pass of the loop over vid
UpdateV ==
    /\ pc = "sweepV"
    /\ LET c == vid[k + 1]
           ig == infograd(U, V)
       IN  /\ V' = [V EXCEPT ![c].upd = @ + 1]
           /\ sweep' = Append(sweep, Update("V", c, ig))
    /\ IF k + 1 < Len(vid)
       THEN pc' = pc /\ k' = k + 1
       ELSE pc' = "sweepU" /\ k' = 0
    /\ UNCHANGED <<self, init_arg, Y, X, Z, sz, err, Ko, Kf, lid, uid, vid, U,
                   dev, t, stop, n_theta,
                   est_arg, gf_built>>

\* lines 425-429, one pass of the loop over uid
UpdateU ==
    /\ pc = "sweepU"
    /\ LET c == uid[k + 1]
           ig == infograd(U, V)
       IN  /\ U' = [U EXCEPT ![c].upd = @ + 1]
           /\ sweep' = Append(sweep, Update("U", c, ig))
    /\ IF k + 1 < Len(uid)
       THEN pc' = pc /\ k' = k + 1
       ELSE pc' = "endsweep" /\ k' = 0
    /\ UNCHANGED <<self, init_arg, Y, X, Z, sz, err, Ko, Kf, lid, uid, vid, V,
                   dev, t, stop, n_theta,
                   est_arg, gf_built>>

\* line 433, family.link.inverse(rfunc(U, V)): the means are computed from U
\* and V as they are, kept as the update count of every column
FittedMeans(Uc, Vc) == [u |-> [c \in DOMAIN Uc |-> Uc[c].upd],
                        v |-> [c \in DOMAIN Vc |-> Vc[c].upd]]

\* est_nb_theta (lines 191-212): the dispersions one Newton step can return
est_nb_theta(y, mu, th) == ThetaVals

\* EndSweep without lines 434-435: the wrapper is not rebuilt
EndSweep_keep ==
    /\ pc = "endsweep"
    /\ IF self.family = "nb"
       THEN \E th \in est_nb_theta(Y, FittedMeans(U, V), self.nb_theta) :
              /\ self' = [self EXCEPT !.nb_theta = <<th>>]
              /\ n_theta' = n_theta + 1
              /\ est_arg' = [mu |-> FittedMeans(U, V), th |-> self.nb_theta]
              /\ gf_built' = gf_built
       ELSE UNCHANGED <<self, n_theta, est_arg, gf_built>>
    /\ IF t + 1 < self.maxiter
       THEN pc' = "dev" /\ t' = t + 1 /\ stop' = stop
       ELSE pc' = "post" /\ t' = t /\ stop' = "exhausted"
    /\ UNCHANGED <<init_arg, Y, X, Z, sz, err, Ko, Kf, lid, uid, vid, U, V, dev,
                   k, sweep>>

\* lines 431-435, then line 405: the next pass of the loop or its end
EndSweep ==
    /\ pc = "endsweep"
    /\ IF self.family = "nb"
       THEN \E th \in est_nb_theta(Y, FittedMeans(U, V), self.nb_theta) :
              /\ self' = [self EXCEPT
                            !.nb_theta = <<th>>,
                            !.gf = initialize(GlmpcaFamily(self.family, <<th>>),
                                              Y, sz)]
              /\ n_theta' = n_theta + 1
              /\ est_arg' = [mu |-> FittedMeans(U, V), th |-> self.nb_theta]
              /\ gf_built' = gf_built + 1
       ELSE UNCHANGED <<self, n_theta, est_arg, gf_built>>
    /\ IF t + 1 < self.maxiter
       THEN pc' = "dev" /\ t' = t + 1 /\ stop' = stop
       ELSE pc' = "post" /\ t' = t /\ stop' = "exhausted"
    /\ UNCHANGED <<init_arg, Y, X, Z, sz, err, Ko, Kf, lid, uid, vid, U, V, dev,
                   k, sweep>>

-----------------------------------------------------------------------------
(* GlmPCA.ortho (lines 304-345) and the postprocessing of fit (437-441) *)

\* numpy's argsort of keys indexed 0..K-1 (a stable insertion sort for the
\* short arrays met here): position r holds the index with r keys before it
Before(keys, i) == {j \in DOMAIN keys :
                      keys[j] < keys[i] \/ (keys[j] = keys[i] /\ j < i)}
argsort(keys) == [r \in DOMAIN keys |->
                    CHOOSE i \in DOMAIN keys : Cardinality(Before(keys, i)) = r]

\* line 341 without the minus sign
SortOrder_asc(norms) == argsort(norms)
\* line 341
SortOrder(norms) == argsort([i \in DOMAIN norms |-> -norms[i]])

\* the rank of a full SVD seen from the factors' side
SvdRank_full(J, L) == L
\* line 338: the economy SVD of the J x L loadings keeps min(J, L) dimensions
SvdRank(J, L) == Min(J, L)

\* lines 338-345: the attributes ortho assigns, given the column norms of
\* the rotated factors.  A column is kept as the dimension it is and its norm.
\* G is what fit passes (line 437); line 322 turns a G that is zero in every
\* entry into None, which updated coefficient columns are not.
ortho(obj, N, J, L, ko, G, norms) ==
    LET o == SortOrder(norms)
    IN  [obj EXCEPT
           !.factors = <<[rows |-> N,
                          cols |-> [i \in DOMAIN norms |->
                                      [dim |-> o[i], norm |-> norms[o[i]]]]]>>,
           !.loadings = <<[rows |-> J,
                           cols |-> [i \in DOMAIN norms |-> [dim |-> o[i]]]]>>,
           !.coefX = <<[rows |-> J, cols |-> ko]>>,
           !.coefZ = <<G>>]

\* line 441 with range(t)
Truncate_short(d, tt) == SubSeq(d, 1, tt)
\* line 441
Truncate(d, tt) == SubSeq(d, 1, tt + 1)

Postprocess ==
    /\ pc = "post"
    /\ \E norms \in [Range(SvdRank(J_, L_)) -> 0 .. MaxNorm] :
         LET G == IF Kf = 0 THEN None ELSE [rows |-> N_, cols |-> Kf]
             done == ortho(self, N_, J_, L_, Ko, G, norms)
         IN  IF t = Unbound
             \* line 441 reads t, which the loop never bound
             THEN /\ self' = done
                  /\ pc' = "raised"
                  /\ err' = Raise("UnboundLocalError", 441)
             ELSE /\ self' = [done EXCEPT !.dev = <<Truncate(dev, t)>>]
                  /\ pc' = "done"
                  /\ err' = err
    /\ UNCHANGED <<init_arg, Y, X, Z, sz, Ko, Kf, lid, uid, vid, U, V, dev, t, k,
                   sweep, stop, n_theta,
                   est_arg, gf_built>>

Next == \/ Validate
        \/ Initialize
        \/ DevEval
        \/ UpdateV
        \/ UpdateU
        \/ EndSweep
        \/ Postprocess

Spec == Init /\ [][Next]_vars

-----------------------------------------------------------------------------
(* Properties *)

Returned == pc = "done"
NCols(m) == Cardinality(DOMAIN m.cols)
Shape(m) == <<m.rows, NCols(m)>>
Updated(n) == /\ \A i \in 1 .. Len(vid) : V[vid[i]].upd = n
              /\ \A i \in 1 .. Len(uid) : U[uid[i]].upd = n
NoResult == /\ self.factors = Unset /\ self.loadings = Unset
            /\ self.coefX = Unset /\ self.coefZ = Unset /\ self.dev = Unset

\* C1, as claimed: after fit returns, factors has shape (N, L) and loadings
\* has shape (J, L), for every positive L.
C1_ShapesNL ==
    Returned => /\ Shape(self.factors[1]) = <<N_, L_>>
                /\ Shape(self.loadings[1]) = <<J_, L_>>
\* C1, amended: after fit returns, factors has shape (N, min(L, J)) and
\* loadings has shape (J, min(L, J)); these are (N, L) and (J, L) exactly
\* when L <= J, whatever N is.
C1_ShapesRank ==
    Returned => /\ Shape(self.factors[1]) = <<N_, Min(L_, J_)>>
                /\ Shape(self.loadings[1]) = <<J_, Min(L_, J_)>>
                /\ (L_ <= J_ <=> /\ Shape(self.factors[1]) = <<N_, L_>>
                                 /\ Shape(self.loadings[1]) = <<J_, L_>>)
C1_Witness == Returned /\ L_ > J_ /\ L_ > N_

\* what the claim C2 calls an input that violates a validation rule
ZeroRow(y) == \E j \in 1 .. nrowY(y) : \A n \in 1 .. ncolY(y) : y[j][n] = 0
Negative(y) == \E j \in 1 .. nrowY(y), n \in 1 .. ncolY(y) : y[j][n] < 0
AboveOne(y) == \E j \in 1 .. nrowY(y), n \in 1 .. ncolY(y) : y[j][n] > 1
InvalidInput ==
    \/ Negative(Y)
    \/ self.family = "bern" /\ AboveOne(Y)
    \/ ZeroRow(Y)
    \/ X # None /\ X[1].rows # N_
    \/ Z # None /\ Z[1].rows # J_
    \/ sz # None /\ Len(sz) # N_

\* C2: when the input violates a validation rule, fit raises GlmpcaError
\* from its entry checks: no deviance buffer exists, U and V were never
\* built, and the family wrapper is as the constructor left it.
C2_ValidationFirst ==
    (InvalidInput /\ pc # "call") =>
        /\ pc = "raised"
        /\ err.type = "GlmpcaError" /\ err.at <= 380
        /\ dev = None /\ U = None /\ V = None
        /\ self.gf = GlmpcaFamily(self.family, <<NbThetaDefault>>)
        /\ n_theta = 0
C2_Witness == InvalidInput /\ pc = "raised" /\ err.at = 380 /\ self.family = "bern"

\* C3, as claimed: the first min(L, supplied columns) latent columns of the
\* initial U (of V) hold the supplied warm-start factors (loadings).
C3_WarmStartUsed ==
    (U # None /\ V # None) =>
        /\ \A c \in WarmCols(init_arg.factors, Ko, Kf, L_) : U[c].src = "init"
        /\ \A c \in WarmCols(init_arg.loadings, Ko, Kf, L_) : V[c].src = "init"

\* the entries of the buffer of line 404 that line 406 wrote
Written == {i \in 1 .. Len(dev) : dev[i] # NaN}
\* C4: when fit returns, dev holds one value for every iteration run (the
\* entries of the buffer that were written), between 1 and maxiter of them,
\* each finite, in the order they were computed.
C4_DevTrace ==
    Returned =>
        LET d == self.dev[1]
        IN  /\ Len(d) = Cardinality(Written)
            /\ Len(d) = t + 1
            /\ 1 <= Len(d) /\ Len(d) <= self.maxiter
            /\ \A i \in 1 .. Len(d) : d[i] \notin NonFinite /\ d[i] = dev[i]
C4_Witness == Returned /\ stop = "break" /\ Len(self.dev[1]) < self.maxiter

\* C5, as claimed: after a negative-binomial fit, gf.nb_theta is the last
\* re-estimated nb_theta of the GlmPCA object.
C5_GfCarriesTheta ==
    (Returned /\ self.family = "nb") => self.gf.nb_theta = self.nb_theta

\* line 388 was reached
InitializeRan == pc \notin {"call", "init"} /\ err.type # "GlmpcaError"
\* C6, as claimed: for Poisson and negative binomial, initialize stores the
\* supplied size factors and their link as offsets, and the column means of
\* Y when none are supplied.
C6_SizeFactors ==
    (InitializeRan /\ self.family \in {"poi", "nb"}) =>
        IF sz # None
        THEN /\ VecEq(self.gf.sz, AsFractions(sz))
             /\ self.gf.offsets # Unset
             /\ self.gf.offsets.fn = "log"
             /\ VecEq(self.gf.offsets.of, AsFractions(sz))
        ELSE VecEq(self.gf.sz, colMeans(Y))

\* C7: a non-finite deviance at iteration t ends fit with the divergence
\* error in that iteration: no column was updated after it (every optimized
\* column has its t updates) and no result attribute was assigned.
C7_Divergence ==
    (dev # None /\ t # Unbound /\ pc # "dev" /\ dev[t + 1] \in NonFinite) =>
        /\ pc = "raised"
        /\ err = Raise("GlmpcaError", 408)
        /\ Updated(t)
        /\ NoResult
C7_Witness == pc = "raised" /\ err.at = 408 /\ t >= 1 /\ dev[t + 1] = Inf

\* C8: after ortho the factor column norms are non-increasing, and the
\* loadings columns are the same dimensions in the same order.
C8_Ordered ==
    self.factors # Unset =>
        LET f == self.factors[1].cols
            l == self.loadings[1].cols
        IN  /\ \A i \in DOMAIN f : (i + 1) \in DOMAIN f => f[i].norm >= f[i + 1].norm
            /\ DOMAIN l = DOMAIN f
            /\ \A i \in DOMAIN f : l[i].dim = f[i].dim
            /\ {f[i].dim : i \in DOMAIN f} = DOMAIN f
C8_Witness ==
    /\ Returned
    /\ NCols(self.factors[1]) >= 2
    /\ self.factors[1].cols[0].dim # 0
    /\ self.factors[1].cols[0].norm > self.factors[1].cols[1].norm

SweepOrder == [i \in 1 .. Len(vid) |-> <<"V", vid[i]>>]
              \o [i \in 1 .. Len(uid) |-> <<"U", uid[i]>>]
DoneBefore(i, mat, c) == \E j \in 1 .. (i - 1) : sweep[j].mat = mat /\ sweep[j].col = c
\* C10: in a sweep the columns are updated in the order vid then uid, one at
\* a time, and the infograd of each update is computed from U and V as all
\* the earlier updates of the sweep left them.
C10_GaussSeidel ==
    pc \in {"sweepV", "sweepU", "endsweep"} =>
        /\ Len(sweep) <= Len(SweepOrder)
        /\ \A i \in 1 .. Len(sweep) :
             /\ <<sweep[i].mat, sweep[i].col>> = SweepOrder[i]
             /\ \A c \in DOMAIN V :
                  sweep[i].saw.v[c] =
                     (IF c \in Elems(vid) THEN t ELSE 0)
                     + (IF DoneBefore(i, "V", c) THEN 1 ELSE 0)
             /\ \A c \in DOMAIN U :
                  sweep[i].saw.u[c] =
                     (IF c \in Elems(uid) THEN t ELSE 0)
                     + (IF DoneBefore(i, "U", c) THEN 1 ELSE 0)
C10_Witness ==
    /\ pc = "endsweep" /\ t >= 1
    /\ Len(vid) >= 2 /\ Len(uid) >= 2
    /\ Len(sweep) = Len(vid) + Len(uid)

\* the latent columns, the L last ones
Latent == (Ko + Kf) .. (Ko + Kf + L_ - 1)
\* C11: once fit has set them, the index sets are the ones Ko, Kf and L give
\* for the rest of the call; the penalty enters the step of column k exactly
\* when k is a latent column; no sweep touches the columns 0..Ko-1 of U
\* (intercept, X) or the columns Ko..Ko+Kf-1 of V (Z).
C11_IndexSets ==
    (U # None /\ V # None) =>
        /\ lid = [i \in 1 .. L_ |-> Ko + Kf + i - 1]
        /\ uid = [i \in 1 .. (Kf + L_) |-> Ko + i - 1]
        /\ vid = [i \in 1 .. (Ko + L_) |->
                    IF i <= Ko THEN i - 1 ELSE Kf + i - 1]
        /\ \A i \in 1 .. Len(sweep) : sweep[i].pen <=> sweep[i].col \in Latent
        /\ \A c \in 0 .. (Ko - 1) :
             U[c] = [src |-> IF c = 0 THEN "ones" ELSE "X", upd |-> 0]
        /\ \A c \in Ko .. (Ko + Kf - 1) : V[c] = [src |-> "Z", upd |-> 0]
C11_Witness ==
    /\ pc = "endsweep" /\ Ko >= 2 /\ Kf >= 1
    /\ \E i, j \in 1 .. Len(sweep) : sweep[i].pen /\ ~sweep[j].pen

\* the sweeps completed so far
Completed == IF t = Unbound THEN 0
             ELSE IF stop = "exhausted" THEN t + 1 ELSE t
\* C12: with the negative-binomial family est_nb_theta has been called once
\* per completed sweep, each time on the means of U and V with every
\* optimized column already updated in that sweep, and the wrapper in use is
\* one built by fit with the current nb_theta and initialized again; with
\* any other family nb_theta keeps its value, nothing is re-estimated and
\* the wrapper stays the constructor's, as line 388 initialized it.
C12_NbRefresh ==
    (U # None /\ V # None) =>
        IF self.family = "nb"
        THEN /\ n_theta = Completed
             /\ gf_built = n_theta
             /\ self.gf.alpha_inv = self.nb_theta
             /\ self.gf = initialize(GlmpcaFamily("nb", self.nb_theta), Y, sz)
             /\ self.gf.offsets # Unset
             /\ n_theta > 0 =>
                  /\ est_arg # None
                  /\ \A i \in 1 .. Len(vid) : est_arg.mu.v[vid[i]] = n_theta
                  /\ \A i \in 1 .. Len(uid) : est_arg.mu.u[uid[i]] = n_theta
        ELSE /\ self.nb_theta = <<NbThetaDefault>>
             /\ n_theta = 0 /\ gf_built = 0 /\ est_arg = None
             /\ self.gf = initialize(GlmpcaFamily(self.family, <<NbThetaDefault>>),
                                     Y, sz)
C12_Witness ==
    /\ self.family = "nb" /\ pc = "dev" /\ t >= 2
    /\ est_arg # None /\ est_arg.th # self.nb_theta
    /\ est_arg.th # <<NbThetaDefault>>
====
